---- MODULE Spec2Model ----
(***************************************************************************)
(* Model of the resumable, checkpointed fetch orchestrator of              *)
(* frontend/src/App.tsx: the single-account controller (handleFetch), the  *)
(* multi-account scheduler (handleFetchAll, handleStopAll,                 *)
(* handleStopAccount, handleRetryAccount), their interval timers, the      *)
(* checkpoint store and the persist collaborator.                          *)
(*                                                                         *)
(* JavaScript runs every handler to its next `await` without interruption, *)
(* so one action is one such run-to-await segment.  An awaited promise is  *)
(* a process position (pc) and its resolution is another action.           *)
(***************************************************************************)
EXTENDS Integers, Sequences, FiniteSets, TLC

\* ---------------------------------------------------------------- bounds
MaxCalls == 3        \* total number of Adapter calls issued in a behaviour
MaxRequests == 3     \* total number of user requests in a behaviour
FetchTimeout == 1    \* settings.fetchTimeout, in seconds
MaxLen == 2          \* longest stored timeline and longest batch, merge runs

\* ------------------------------------------------------------- universes
Tasks == {"t1", "t2"}
TaskOrder == <<"t1", "t2">>
Keys == {"alice", "bob"}
RunIds == {"run1", "run2"}
Cursors == {"c1", "c2"}
NoCursor == ""
NoTime == -1
NoOwner == "none"
NoOutput == [output |-> <<>>, username |-> ""]

\* an error text is the set of the (lower-cased) phrases that occur in it:
\* what the Adapter reports for a 401, an "unauthorized" and a rate limit
NoError == {}
ErrTexts ==
  {{"401", "auth token may be invalid", "invalid or expired"},
   {"unauthorized"},
   {"rate limit"}}

E1 == [tweet_id |-> 1, url |-> "u1", type |-> "photo"]
E2 == [tweet_id |-> 1, url |-> "u2", type |-> "photo"]
Batches == {<<E1>>}
Infos == {"info1"}

\* the Adapter never hands back the cursor it was called with
NextCursor(sent) == IF sent = "c1" THEN "c2" ELSE "c1"

\* what the Adapter may answer to a call made with the cursor `sent`
Responses(sent) ==
  [timeline : Batches, cursor : {NextCursor(sent), NoCursor},
   completed : BOOLEAN, account_info : Infos]

\* the files handleImportFile may read: one line per task, filled in list
\* order ("" is a line the file does not have); two lines may name one account
Imports ==
  {names \in [Tasks -> Keys \cup {""}] : names["t1"] = "alice"}

\* the files that hold a single account
OneAccountImports == {names \in Imports : names["t2"] = ""}

\* ------------------------------------------------------------- variables
VARIABLES
  multipleAccounts,       \* task id -> AccountTask
  isFetchingAll,
  stopAllRef,
  accountStopFlagsRef,    \* task id -> BOOLEAN (absent reads as false)
  accountMediaCountRef,   \* task id -> Nat (absent reads as 0)
  accountStartTimesRef,   \* task id -> seconds since the stored start time
  accountTimersRef,       \* task id -> owner of the registered interval
  intervals,              \* live setInterval callbacks, <<owner, task>>
  fetchState,             \* Checkpoint Store: key -> Session
  cursorStore,            \* lightweight cursor slot: key -> cursor
  db,                     \* persist collaborator: key -> last record
  dbUp,                   \* the persist collaborator is available
  fetchMode,              \* getSettings().fetchMode
  cliOutput,              \* backend: output and username of a failed extractor
  extractorError,         \* backend: the error ExtractTimeline returned for it
  calls,                  \* Adapter calls issued so far
  requests,               \* user requests made so far
  run,                    \* handleFetchAll invocations
  retry,                  \* handleRetryAccount invocations, one per task
  loading,
  stopFetchRef,
  fetchStartTimeRef,
  resumeInfo,
  single,                 \* the handleFetch invocation
  lastOp,                 \* the handler, right after a fetch or retry request
  stopAllSeen             \* history: the runs a stop-all was requested in

batchVars ==
  <<multipleAccounts, isFetchingAll, stopAllRef, accountStopFlagsRef,
    accountMediaCountRef, accountStartTimesRef, accountTimersRef, intervals,
    run, retry>>
storeVars ==
  <<fetchState, cursorStore, db, dbUp, fetchMode, cliOutput, extractorError>>
singleVars == <<loading, stopFetchRef, fetchStartTimeRef, resumeInfo, single>>
vars ==
  <<batchVars, storeVars, singleVars, calls, requests,
    lastOp, stopAllSeen>>

\* ------------------------------------------------------- checkpoint store
NoState ==
  [present |-> FALSE, cursor |-> NoCursor, timeline |-> <<>>,
   accountInfo |-> "", completed |-> FALSE]

NoRecord == [present |-> FALSE, cursor |-> NoCursor]

\* an identity that is the tweet id alone
IdentityByTweetId(e) == <<e.tweet_id, "">>

Identity(e) ==
  IF e.type = "text" THEN <<e.tweet_id, "text">> ELSE <<e.tweet_id, e.url>>

Range(s) == {s[i] : i \in 1..Len(s)}

\* a merge that appends the batch as it is
mergeAppending(existing, incoming) == existing \o incoming

RECURSIVE mergeTimelines(_, _)
mergeTimelines(existing, incoming) ==
  IF incoming = <<>> THEN existing
  ELSE LET e == Head(incoming)
           seen == {Identity(x) : x \in Range(existing)}
       IN IF Identity(e) \in seen
          THEN mergeTimelines(existing, Tail(incoming))
          ELSE mergeTimelines(Append(existing, e), Tail(incoming))

saveFetchState(fs, key, cursor, timeline, accountInfo, completed) ==
  [fs EXCEPT ![key] =
     [present |-> TRUE, cursor |-> cursor, timeline |-> timeline,
      accountInfo |-> accountInfo, completed |-> completed]]

clearFetchState(fs, key) == [fs EXCEPT ![key] = NoState]

saveCursor(cs, key, cursor) == [cs EXCEPT ![key] = cursor]

clearCursor(cs, key) == [cs EXCEPT ![key] = NoCursor]

\* the record GetAllAccountsFromDB returns later: its cursor column
SaveAccountToDBWithStatus(d, key, cursor) ==
  [d EXCEPT ![key] = [present |-> TRUE, cursor |-> cursor]]

\* ------------------------------------------------------------ task records
NoTask ==
  [username |-> "", status |-> "pending", mediaCount |-> 0,
   cursor |-> NoCursor, error |-> NoError]

Imported == {t \in Tasks : multipleAccounts[t].username # ""}

Terminal == {"completed", "incomplete", "failed"}

\* status = mediaCount === 0 ? "failed" : "incomplete"
Classify(mediaCount) == IF mediaCount = 0 THEN "failed" ELSE "incomplete"

\* an if-chain that forgets the per-account stop flag
FinalStatusIgnoringTimeout(wasTimeout, stopAll, hasMore, finalMediaCount) ==
  IF stopAll \/ hasMore THEN Classify(finalMediaCount) ELSE "completed"

\* the if-chain that ends a fetch loop (wasTimeout / stopAll / hasMore / else)
FinalStatus(wasTimeout, stopAll, hasMore, finalMediaCount) ==
  IF wasTimeout THEN Classify(finalMediaCount)
  ELSE IF stopAll THEN Classify(finalMediaCount)
  ELSE IF hasMore THEN Classify(finalMediaCount)
  ELSE "completed"

\* a catch block that classifies by the item count alone
CatchStatusByCount(authError, mediaCount) == Classify(mediaCount)

\* the status chosen by the catch block of a batch-mode loop
CatchStatus(authError, mediaCount) ==
  IF authError \/ mediaCount = 0 THEN "failed" ELSE "incomplete"

\* ------------------------------------------------------- loop invocations
IdleProc ==
  [pc |-> "idle", task |-> "", idx |-> 0, key |-> "", allTimeline |-> <<>>,
   accountInfo |-> "", cursor |-> NoCursor, hasMore |-> FALSE, page |-> 0,
   previousMediaCount |-> 0, source |-> ""]

\* the shared state a run-to-await segment reads and writes
G ==
  [multipleAccounts |-> multipleAccounts,
   isFetchingAll |-> isFetchingAll,
   accountStopFlagsRef |-> accountStopFlagsRef,
   accountMediaCountRef |-> accountMediaCountRef,
   accountStartTimesRef |-> accountStartTimesRef,
   accountTimersRef |-> accountTimersRef,
   intervals |-> intervals,
   fetchState |-> fetchState,
   cursorStore |-> cursorStore,
   db |-> db,
   calls |-> calls]

Commit(g) ==
  /\ multipleAccounts' = g.multipleAccounts
  /\ isFetchingAll' = g.isFetchingAll
  /\ accountStopFlagsRef' = g.accountStopFlagsRef
  /\ accountMediaCountRef' = g.accountMediaCountRef
  /\ accountStartTimesRef' = g.accountStartTimesRef
  /\ accountTimersRef' = g.accountTimersRef
  /\ intervals' = g.intervals
  /\ fetchState' = g.fetchState
  /\ cursorStore' = g.cursorStore
  /\ db' = g.db
  /\ UNCHANGED <<dbUp, fetchMode, cliOutput, extractorError>>
  /\ calls' = g.calls
  /\ calls' <= MaxCalls

\* a user request (a click); the model admits MaxRequests of them
Request ==
  /\ requests < MaxRequests
  /\ requests' = requests + 1

Init ==
  /\ multipleAccounts = [t \in Tasks |-> NoTask]
  /\ isFetchingAll = FALSE
  /\ stopAllRef = FALSE
  /\ accountStopFlagsRef = [t \in Tasks |-> FALSE]
  /\ accountMediaCountRef = [t \in Tasks |-> 0]
  /\ accountStartTimesRef = [t \in Tasks |-> NoTime]
  /\ accountTimersRef = [t \in Tasks |-> NoOwner]
  /\ intervals = {}
  /\ fetchState = [k \in Keys |-> NoState]
  /\ cursorStore = [k \in Keys |-> NoCursor]
  /\ db = [k \in Keys |-> NoRecord]
  /\ dbUp \in BOOLEAN
  /\ fetchMode = "batch"
  /\ cliOutput = NoOutput
  /\ extractorError = <<>>
  /\ calls = 0
  /\ requests = 0
  /\ run = [r \in RunIds |-> IdleProc]
  /\ retry = [t \in Tasks |-> IdleProc]
  /\ loading = FALSE
  /\ stopFetchRef = FALSE
  /\ fetchStartTimeRef = NoTime
  /\ resumeInfo = FALSE
  /\ single = IdleProc
  /\ lastOp = ""
  /\ stopAllSeen = {}

\* --------------------------------------------------------- handleImportFile
\* setMultipleAccounts(accounts): one pending task per line of the file;
\* two lines may name the same account.
handleImportFile(names) ==
  /\ Imported = {}
  /\ multipleAccounts' =
       [t \in Tasks |-> [NoTask EXCEPT !.username = names[t]]]
  /\ lastOp' = ""
  /\ UNCHANGED stopAllSeen
  /\ UNCHANGED <<isFetchingAll, stopAllRef, accountStopFlagsRef,
                 accountMediaCountRef, accountStartTimesRef, accountTimersRef,
                 intervals, run, retry, storeVars, singleVars, calls, requests>>

\* ----------------------------------------------------------- handleFetchAll
\* the body of the for loop up to the first ExtractTimeline call
StartAccount(g, r, i) ==
  LET t == TaskOrder[i]
      acc == g.multipleAccounts[t]
  IN [g |-> [g EXCEPT
               !.accountStopFlagsRef[t] = FALSE,
               !.multipleAccounts[t] =
                  [acc EXCEPT !.status = "fetching"],
               !.accountStartTimesRef[t] = 0,
               !.intervals = @ \cup {<<r, t>>},
               !.accountTimersRef[t] = r,
               !.calls = @ + 1],
      p |-> [IdleProc EXCEPT !.pc = "call", !.task = t, !.idx = i,
                             !.key = acc.username, !.hasMore = TRUE]]

\* a queue loop that also breaks when the account it leaves was stopped
NextAccountBreakingOnStop(g, r, i, stopAll) ==
  IF i + 1 > Cardinality({t \in Tasks : g.multipleAccounts[t].username # ""})
     \/ stopAll \/ g.accountStopFlagsRef[TaskOrder[i]]
  THEN [g |-> [g EXCEPT !.isFetchingAll = FALSE], p |-> IdleProc]
  ELSE StartAccount(g, r, i + 1)

\* the next iteration of `for (let i = 0; i < currentAccounts.length; i++)`
NextAccount(g, r, i, stopAll) ==
  IF i + 1 > Cardinality({t \in Tasks : g.multipleAccounts[t].username # ""})
     \/ stopAll
  THEN [g |-> [g EXCEPT !.isFetchingAll = FALSE], p |-> IdleProc]
  ELSE StartAccount(g, r, i + 1)

\* clear the timer and set the final status after the while loop
RunFinal(g, r, p, stopAll) ==
  LET t == p.task
      finalMediaCount == Len(p.allTimeline)
  IN [g EXCEPT
        !.intervals = @ \ {<<r, t>>},
        !.accountTimersRef[t] = NoOwner,
        !.accountStartTimesRef[t] = NoTime,
        !.accountMediaCountRef[t] = finalMediaCount,
        !.multipleAccounts[t].status =
           FinalStatus(g.accountStopFlagsRef[t], stopAll, p.hasMore,
                       finalMediaCount)]

\* `while (hasMore && !stopAllRef.current)` and the stop-flag check in it
RunLoopTop(g, r, p, stopAll) ==
  IF p.hasMore /\ ~stopAll
  THEN IF g.accountStopFlagsRef[p.task]
       THEN IF p.accountInfo # "" /\ Len(p.allTimeline) > 0
            THEN [g |-> [g EXCEPT !.fetchState =
                           saveFetchState(@, p.key, p.cursor, p.allTimeline,
                                          p.accountInfo, FALSE)],
                  p |-> [p EXCEPT !.pc = "stopsave"]]
            ELSE NextAccount(RunFinal(g, r, p, stopAll), r, p.idx, stopAll)
       ELSE [g |-> [g EXCEPT !.calls = @ + 1], p |-> [p EXCEPT !.pc = "call"]]
  ELSE NextAccount(RunFinal(g, r, p, stopAll), r, p.idx, stopAll)

\* the auth token is present: reset every task and start the first account
handleFetchAll(r) ==
  /\ Request
  /\ run[r].pc = "idle"
  /\ r = "run2" => run["run1"].pc # "idle"
  /\ Imported # {}
  /\ LET reset ==
           [t \in Tasks |->
              [multipleAccounts[t] EXCEPT
                 !.status = "pending", !.mediaCount = 0, !.error = NoError]]
         n == StartAccount([G EXCEPT !.isFetchingAll = TRUE,
                                     !.multipleAccounts = reset], r, 1)
     IN /\ Commit(n.g)
        /\ run' = [run EXCEPT ![r] = n.p]
  /\ stopAllRef' = FALSE
  /\ lastOp' = ""
  /\ UNCHANGED stopAllSeen
  /\ UNCHANGED <<retry, singleVars>>

\* the auth token is missing: the flags are already written when it returns
handleFetchAllNoToken ==
  /\ Request
  /\ Imported # {}
  /\ isFetchingAll' = FALSE
  /\ stopAllRef' = FALSE
  /\ lastOp' = ""
  /\ UNCHANGED stopAllSeen
  /\ UNCHANGED <<multipleAccounts, accountStopFlagsRef,
                 accountMediaCountRef, accountStartTimesRef, accountTimersRef,
                 intervals, run, retry, storeVars, singleVars, calls>>

\* a batch that overwrites the account info with its own
MergeBatchLatestInfo(p, data) ==
  LET cursor == data.cursor
  IN [p EXCEPT
        !.accountInfo = data.account_info,
        !.allTimeline = mergeTimelines(@, data.timeline),
        !.cursor = cursor,
        !.hasMore = (cursor # NoCursor /\ ~data.completed),
        !.page = @ + 1]

\* a batch step that continues whenever a cursor came back
MergeBatchCursorOnly(p, data) ==
  LET cursor == data.cursor
  IN [p EXCEPT
        !.accountInfo = IF @ = "" THEN data.account_info ELSE @,
        !.allTimeline = mergeTimelines(@, data.timeline),
        !.cursor = cursor,
        !.hasMore = (cursor # NoCursor),
        !.page = @ + 1]

\* what one successful batch does to the loop's locals
MergeBatch(p, data) ==
  LET cursor == data.cursor
  IN [p EXCEPT
        !.accountInfo = IF @ = "" THEN data.account_info ELSE @,
        !.allTimeline = mergeTimelines(@, data.timeline),
        !.cursor = cursor,
        !.hasMore = (cursor # NoCursor /\ ~data.completed),
        !.page = @ + 1]

\* ExtractTimeline resolved: merge, save cursor, progress, checkpoint
RunBatch(g, p, data) ==
  LET q == MergeBatch(p, data)
      t == p.task
      currentMediaCount == Len(q.allTimeline)
  IN [g |-> [g EXCEPT
               !.cursorStore = IF q.cursor # NoCursor
                               THEN saveCursor(@, p.key, q.cursor) ELSE @,
               !.accountMediaCountRef[t] = currentMediaCount,
               !.multipleAccounts[t].mediaCount = currentMediaCount,
               !.multipleAccounts[t].cursor = q.cursor,
               !.fetchState =
                  IF q.accountInfo # ""
                  THEN saveFetchState(@, p.key, q.cursor, q.allTimeline,
                                      q.accountInfo, ~q.hasMore)
                  ELSE @],
      p |-> [q EXCEPT !.pc = "persist"]]

RunCallReturn(r, data) ==
  /\ run[r].pc = "call"
  /\ LET n == RunBatch(G, run[r], data)
     IN /\ Commit(n.g)
        /\ run' = [run EXCEPT ![r] = n.p]
  /\ lastOp' = ""
  /\ stopAllSeen' = {x \in stopAllSeen : run'[x].pc # "idle"}
  /\ UNCHANGED <<stopAllRef, retry, singleVars, requests>>

\* a persist whose failure takes the checkpoint with it
PersistedOrLost(g, p, ok) ==
  IF ok
  THEN [g EXCEPT !.db = SaveAccountToDBWithStatus(@, p.key, p.cursor)]
  ELSE [g EXCEPT !.fetchState = clearFetchState(@, p.key)]

\* the best-effort write of the persist collaborator
Persisted(g, p, ok) ==
  IF ok
  THEN [g EXCEPT !.db = SaveAccountToDBWithStatus(@, p.key, p.cursor)]
  ELSE g

\* SaveAccountToDBWithStatus resolved or rejected after a batch
RunPersistReturn(r, ok) ==
  /\ run[r].pc = "persist"
  /\ LET p == run[r]
         n == RunLoopTop(Persisted(G, p, ok), r, p, stopAllRef)
     IN /\ Commit(n.g)
        /\ run' = [run EXCEPT ![r] = n.p]
  /\ lastOp' = ""
  /\ stopAllSeen' = {x \in stopAllSeen : run'[x].pc # "idle"}
  /\ UNCHANGED <<stopAllRef, retry, singleVars, requests>>

\* the save in the stop-flag branch resolved or rejected; then `break`
RunStopSaveReturn(r, ok) ==
  /\ run[r].pc = "stopsave"
  /\ LET p == run[r]
         n == NextAccount(RunFinal(Persisted(G, p, ok), r, p,
                                   stopAllRef), r, p.idx, stopAllRef)
     IN /\ Commit(n.g)
        /\ run' = [run EXCEPT ![r] = n.p]
  /\ lastOp' = ""
  /\ stopAllSeen' = {x \in stopAllSeen : run'[x].pc # "idle"}
  /\ UNCHANGED <<stopAllRef, retry, singleVars, requests>>

\* errorMsg.toLowerCase().includes(...) of the catch block
isAuthError(errorMsg) ==
  \/ "401" \in errorMsg
  \/ "unauthorized" \in errorMsg
  \/ "auth token may be invalid" \in errorMsg
  \/ "auth token may be expired" \in errorMsg
  \/ "invalid or expired" \in errorMsg

\* the catch block of a batch-mode loop
Catch(g, t, err) ==
  LET owner == g.accountTimersRef[t]
      mediaCount == g.accountMediaCountRef[t]
  IN [g EXCEPT
        !.intervals = IF owner # NoOwner THEN @ \ {<<owner, t>>} ELSE @,
        !.accountTimersRef[t] = NoOwner,
        !.accountStartTimesRef[t] = NoTime,
        !.accountMediaCountRef[t] = 0,
        !.multipleAccounts[t] =
           [@ EXCEPT !.status = CatchStatus(isAuthError(err), mediaCount),
                     !.error = err, !.mediaCount = mediaCount]]

\* ExtractTimeline rejected (Adapter failure, or the subprocess was killed)
RunCallFail(r, err) ==
  /\ run[r].pc = "call"
  /\ LET p == run[r]
         n == NextAccount(Catch(G, p.task, err), r, p.idx, stopAllRef)
     IN /\ Commit(n.g)
        /\ run' = [run EXCEPT ![r] = n.p]
  /\ lastOp' = ""
  /\ stopAllSeen' = {x \in stopAllSeen : run'[x].pc # "idle"}
  /\ UNCHANGED <<stopAllRef, retry, singleVars, requests>>

\* ------------------------------------------------- timers, stop-all, stop-one
\* the interval of task t has counted the configured timeout down to 0
Due(t) ==
  /\ accountStartTimesRef[t] # NoTime
  /\ accountStartTimesRef[t] >= FetchTimeout

\* the callback of the interval created for task t by `owner`, on the tick
\* where remaining <= 0 (earlier ticks only redraw elapsed / remaining time)
TimerFire(owner, t) ==
  /\ <<owner, t>> \in intervals
  /\ Due(t)
  /\ LET mediaCount == accountMediaCountRef[t]
     IN /\ accountStopFlagsRef' = [accountStopFlagsRef EXCEPT ![t] = TRUE]
        /\ intervals' = intervals \ {<<owner, t>>}
        /\ accountTimersRef' = [accountTimersRef EXCEPT ![t] = NoOwner]
        /\ accountStartTimesRef' = [accountStartTimesRef EXCEPT ![t] = NoTime]
        /\ multipleAccounts' =
             [multipleAccounts EXCEPT ![t] =
                [@ EXCEPT !.status = Classify(mediaCount),
                          !.mediaCount = mediaCount]]
  /\ lastOp' = ""
  /\ UNCHANGED stopAllSeen
  /\ UNCHANGED <<isFetchingAll, stopAllRef, accountMediaCountRef, run,
                 retry, storeVars, singleVars, calls, requests>>

\* mediaCount = accountMediaCountRef.get(id) || acc.mediaCount || 0
StopCount(t) ==
  IF accountMediaCountRef[t] # 0 THEN accountMediaCountRef[t]
  ELSE multipleAccounts[t].mediaCount

StoppedTask(t) ==
  IF multipleAccounts[t].status = "fetching"
  THEN [multipleAccounts[t] EXCEPT !.status = Classify(StopCount(t)),
                                   !.mediaCount = StopCount(t)]
  ELSE multipleAccounts[t]

\* the row of a task shows its stop button while the task is fetching
StopOffered(t) == multipleAccounts[t].status = "fetching"

Registered == {<<accountTimersRef[t], t>> : t \in Tasks}

handleStopAll ==
  /\ Request
  /\ stopAllRef' = TRUE
  /\ isFetchingAll' = FALSE
  /\ intervals' = intervals \ Registered
  /\ accountTimersRef' = [t \in Tasks |-> NoOwner]
  /\ accountStartTimesRef' = [t \in Tasks |-> NoTime]
  /\ multipleAccounts' = [t \in Tasks |-> StoppedTask(t)]
  /\ lastOp' = ""
  /\ stopAllSeen' = {r \in RunIds : run[r].pc # "idle"}
  /\ UNCHANGED <<accountStopFlagsRef, accountMediaCountRef, run, retry,
                 storeVars, singleVars, calls>>

handleStopAccount(t) ==
  /\ Request
  /\ t \in Imported
  /\ StopOffered(t)
  /\ accountStopFlagsRef' = [accountStopFlagsRef EXCEPT ![t] = TRUE]
  /\ multipleAccounts' = [multipleAccounts EXCEPT ![t] = StoppedTask(t)]
  /\ intervals' = intervals \ {<<accountTimersRef[t], t>>}
  /\ accountTimersRef' = [accountTimersRef EXCEPT ![t] = NoOwner]
  /\ accountStartTimesRef' = [accountStartTimesRef EXCEPT ![t] = NoTime]
  /\ lastOp' = ""
  /\ UNCHANGED stopAllSeen
  /\ UNCHANGED <<isFetchingAll, stopAllRef, accountMediaCountRef, run,
                 retry, storeVars, singleVars, calls>>

\* Date.now() - startTime after one more second; the model stops counting
\* at the timeout, where every comparison in the code has the same outcome
Older(age) == IF age = NoTime \/ age >= FetchTimeout THEN age ELSE age + 1

\* one second passes; an interval that is due runs before the next second
Tick ==
  /\ \/ \E t \in Tasks : Older(accountStartTimesRef[t]) # accountStartTimesRef[t]
     \/ Older(fetchStartTimeRef) # fetchStartTimeRef
  /\ \A iv \in intervals : ~Due(iv[2])
  /\ ~(loading /\ fetchStartTimeRef >= FetchTimeout /\ ~stopFetchRef)
  /\ accountStartTimesRef' = [t \in Tasks |-> Older(accountStartTimesRef[t])]
  /\ fetchStartTimeRef' = Older(fetchStartTimeRef)
  /\ lastOp' = ""
  /\ UNCHANGED stopAllSeen
  /\ UNCHANGED <<multipleAccounts, isFetchingAll, stopAllRef,
                 accountStopFlagsRef, accountMediaCountRef, accountTimersRef,
                 intervals, run, retry, storeVars, loading, stopFetchRef,
                 resumeInfo, single, calls, requests>>

\* -------------------------------------------------------- handleRetryAccount
\* status "fetching", stop flag off, timer started, then the while loop
RetryBegin(g, t, p, stopAll) ==
  LET acc == g.multipleAccounts[t]
      g1 == [g EXCEPT
               !.multipleAccounts[t] =
                  [acc EXCEPT !.status = "fetching", !.error = NoError,
                              !.mediaCount = p.previousMediaCount],
               !.accountStopFlagsRef[t] = FALSE,
               !.accountStartTimesRef[t] = 0,
               !.intervals = @ \cup {<<"retry", t>>},
               !.accountTimersRef[t] = "retry"]
      p1 == [p EXCEPT !.hasMore = TRUE, !.page = 0, !.previousMediaCount = 0]
  IN [g |-> g1, p |-> p1]

\* clear the timer and set the final status after the retry loop
RetryFinal(g, t, p, stopAll) ==
  LET finalMediaCount == Len(p.allTimeline)
      status == FinalStatus(g.accountStopFlagsRef[t], stopAll, p.hasMore,
                            finalMediaCount)
      done == status = "completed"
  IN [g |-> [g EXCEPT
               !.intervals = @ \ {<<"retry", t>>},
               !.accountTimersRef[t] = NoOwner,
               !.accountStartTimesRef[t] = NoTime,
               !.accountMediaCountRef[t] = finalMediaCount,
               !.fetchState = IF done THEN clearFetchState(@, p.key) ELSE @,
               !.cursorStore = IF done THEN clearCursor(@, p.key) ELSE @,
               !.multipleAccounts[t] =
                  [@ EXCEPT !.status = status,
                            !.cursor = IF done THEN NoCursor ELSE @]],
      p |-> IdleProc]

RetryLoopTop(g, t, p, stopAll) ==
  IF p.hasMore /\ ~stopAll /\ ~g.accountStopFlagsRef[t]
  THEN [g |-> [g EXCEPT !.calls = @ + 1], p |-> [p EXCEPT !.pc = "call"]]
  ELSE RetryFinal(g, t, p, stopAll)

\* a retry that gives up when the account has no stored session
RetryEnterNeedingCheckpoint(g, t, p, stopAll) ==
  IF g.fetchState[p.key].present
  THEN RetryLoopTop(RetryBegin(g, t, p, stopAll).g, t,
                    RetryBegin(g, t, p, stopAll).p, stopAll)
  ELSE [g |-> [g EXCEPT !.multipleAccounts[t].status = "failed"],
        p |-> IdleProc]

RetryEnter(g, t, p, stopAll) ==
  LET b == RetryBegin(g, t, p, stopAll)
  IN RetryLoopTop(b.g, t, b.p, stopAll)

\* the scheduler's state machine offers retry for a task in a terminal status
RetryOffered(t) == multipleAccounts[t].status \in Terminal

\* a retry that prefers the task's cursor to the checkpointed session
RetrySourceCursorFirst(existingState, accountCursor, savedCursor) ==
  IF accountCursor # NoCursor THEN "account"
  ELSE IF savedCursor # NoCursor THEN "cursor"
  ELSE IF existingState.present /\ existingState.cursor # NoCursor
          /\ ~existingState.completed
  THEN "state"
  ELSE "db"

\* the resume source found without asking the persist collaborator
RetrySource(existingState, accountCursor, savedCursor) ==
  IF existingState.present /\ existingState.cursor # NoCursor
     /\ ~existingState.completed
  THEN "state"
  ELSE IF accountCursor # NoCursor THEN "account"
  ELSE IF savedCursor # NoCursor THEN "cursor"
  ELSE "db"

handleRetryAccount(t) ==
  /\ Request
  /\ retry[t].pc = "idle"
  /\ t \in Imported
  /\ RetryOffered(t)
  /\ LET account == multipleAccounts[t]
         key == account.username
         existingState == fetchState[key]
         src == RetrySource(existingState, account.cursor, cursorStore[key])
         p0 == [IdleProc EXCEPT !.task = t, !.key = key, !.source = src,
                                !.cursor = account.cursor,
                                !.previousMediaCount = account.mediaCount]
         p == IF src = "state"
              THEN [p0 EXCEPT !.cursor = existingState.cursor,
                              !.allTimeline = existingState.timeline,
                              !.accountInfo = existingState.accountInfo,
                              !.previousMediaCount =
                                 Len(existingState.timeline)]
              ELSE IF src = "cursor"
              THEN [p0 EXCEPT !.cursor = cursorStore[key]]
              ELSE p0
         n == IF src = "db"
              THEN [g |-> G, p |-> [p EXCEPT !.pc = "db"]]
              ELSE RetryEnter(G, t, p, stopAllRef)
     IN /\ Commit(n.g)
        /\ retry' = [retry EXCEPT ![t] = n.p]
  /\ lastOp' = "handleRetryAccount"
  /\ UNCHANGED stopAllSeen
  /\ UNCHANGED <<stopAllRef, run, singleVars>>

\* GetAllAccountsFromDB resolved (ok) or rejected
RetryDbReturn(t, ok) ==
  /\ retry[t].pc = "db"
  /\ LET p == retry[t]
         dbAccount == db[p.key]
         found == ok /\ dbAccount.present /\ dbAccount.cursor # NoCursor
         g1 == IF found THEN G
               ELSE [G EXCEPT !.fetchState = clearFetchState(@, p.key),
                              !.cursorStore = clearCursor(@, p.key)]
         p1 == IF found
               THEN [p EXCEPT !.cursor = dbAccount.cursor]
               ELSE [p EXCEPT !.source = "fresh"]
         n == RetryEnter(g1, t, p1, stopAllRef)
     IN /\ Commit(n.g)
        /\ retry' = [retry EXCEPT ![t] = n.p]
  /\ lastOp' = ""
  /\ UNCHANGED stopAllSeen
  /\ UNCHANGED <<stopAllRef, run, singleVars, requests>>

\* ExtractTimeline resolved inside the retry loop
RetryBatch(g, p, data) ==
  LET q == MergeBatch(p, data)
      t == p.task
      currentMediaCount == Len(q.allTimeline)
  IN [g |-> [g EXCEPT
               !.cursorStore = IF q.cursor # NoCursor
                               THEN saveCursor(@, p.key, q.cursor) ELSE @,
               !.accountMediaCountRef[t] = currentMediaCount,
               !.multipleAccounts[t].mediaCount = currentMediaCount,
               !.multipleAccounts[t].cursor = q.cursor,
               !.fetchState =
                  IF q.page % 3 = 0 \/ ~q.hasMore \/ g.accountStopFlagsRef[t]
                  THEN saveFetchState(@, p.key, q.cursor, q.allTimeline,
                                      q.accountInfo, ~q.hasMore)
                  ELSE @],
      p |-> [q EXCEPT !.pc = "persist"]]

RetryCallReturn(t, data) ==
  /\ retry[t].pc = "call"
  /\ LET n == RetryBatch(G, retry[t], data)
     IN /\ Commit(n.g)
        /\ retry' = [retry EXCEPT ![t] = n.p]
  /\ lastOp' = ""
  /\ UNCHANGED stopAllSeen
  /\ UNCHANGED <<stopAllRef, run, singleVars, requests>>

RetryPersistReturn(t, ok) ==
  /\ retry[t].pc = "persist"
  /\ LET p == retry[t]
         n == RetryLoopTop(Persisted(G, p, ok), t, p, stopAllRef)
     IN /\ Commit(n.g)
        /\ retry' = [retry EXCEPT ![t] = n.p]
  /\ lastOp' = ""
  /\ UNCHANGED stopAllSeen
  /\ UNCHANGED <<stopAllRef, run, singleVars, requests>>

RetryCallFail(t, err) ==
  /\ retry[t].pc = "call"
  /\ Commit(Catch(G, t, err))
  /\ retry' = [retry EXCEPT ![t] = IdleProc]
  /\ lastOp' = ""
  /\ UNCHANGED stopAllSeen
  /\ UNCHANGED <<stopAllRef, run, singleVars, requests>>

\* ---------------------------------------------------------------- scheduler
\* the steps of the loops, the timers, and the stop and retry requests
BatchSteps ==
  \/ \E r \in RunIds : \E data \in Responses(run[r].cursor) :
       RunCallReturn(r, data)
  \/ \E r \in RunIds, ok \in {dbUp} : RunPersistReturn(r, ok)
  \/ \E r \in RunIds, ok \in {dbUp} : RunStopSaveReturn(r, ok)
  \/ \E r \in RunIds, err \in ErrTexts : RunCallFail(r, err)
  \/ \E iv \in intervals : TimerFire(iv[1], iv[2])
  \/ handleStopAll
  \/ \E t \in Tasks : handleStopAccount(t)
  \/ Tick
  \/ \E t \in Tasks : handleRetryAccount(t)
  \/ \E t \in Tasks, ok \in {dbUp} : RetryDbReturn(t, ok)
  \/ \E t \in Tasks : \E data \in Responses(retry[t].cursor) :
       RetryCallReturn(t, data)
  \/ \E t \in Tasks, ok \in {dbUp} : RetryPersistReturn(t, ok)
  \/ \E t \in Tasks, err \in ErrTexts : RetryCallFail(t, err)

\* every handler may be invoked whenever its own code lets it run
BatchNext ==
  \/ \E r \in RunIds : handleFetchAll(r)
  \/ handleFetchAllNoToken
  \/ BatchSteps

Next ==
  \/ \E names \in Imports : handleImportFile(names)
  \/ BatchNext

Spec == Init /\ [][Next]_vars

\* the same program when the imported file holds one account
NextOne ==
  \/ \E names \in OneAccountImports : handleImportFile(names)
  \/ BatchNext

SpecOne == Init /\ [][NextOne]_vars

\* the Fetch All button gives way to the Stop button while isFetchingAll
FetchAllOffered == ~isFetchingAll

\* the same program when Fetch All is requested only while it is offered
NextUI ==
  \/ \E names \in Imports : handleImportFile(names)
  \/ \E r \in RunIds : FetchAllOffered /\ handleFetchAll(r)
  \/ FetchAllOffered /\ handleFetchAllNoToken
  \/ BatchSteps

SpecUI == Init /\ [][NextUI]_vars

\* ------------------------------------------------------------- handleFetch
\* the ways handleFetch is asked to fetch: timeline from the start, resume
\* of a checkpoint (handleResume), or one date-range call
Modes == {"fresh", "resume", "range"}

\* a handleFetch without its guard
NeverInProgress == FALSE

\* `if (loading)`: a fetch is already in progress
FetchInProgress == loading

\* the state a segment of handleFetch reads and writes
S ==
  [loading |-> loading,
   stopFetchRef |-> stopFetchRef,
   fetchStartTimeRef |-> fetchStartTimeRef,
   resumeInfo |-> resumeInfo,
   fetchState |-> fetchState,
   cursorStore |-> cursorStore,
   db |-> db,
   calls |-> calls]

CommitSingle(n) ==
  /\ loading' = n.g.loading
  /\ stopFetchRef' = n.g.stopFetchRef
  /\ fetchStartTimeRef' = n.g.fetchStartTimeRef
  /\ resumeInfo' = n.g.resumeInfo
  /\ fetchState' = n.g.fetchState
  /\ cursorStore' = n.g.cursorStore
  /\ db' = n.g.db
  /\ calls' = n.g.calls
  /\ calls' <= MaxCalls
  /\ single' = n.p
  /\ lastOp' = ""
  /\ UNCHANGED stopAllSeen
  /\ UNCHANGED <<batchVars, dbUp, fetchMode, cliOutput, extractorError>>

\* `finally`: setLoading(false); the timer effect then clears its interval
\* and the start time
SingleFinally(g) ==
  [g |-> [g EXCEPT !.loading = FALSE, !.fetchStartTimeRef = NoTime],
   p |-> IdleProc]

\* after the while loop: keep or clear the checkpoint, build finalData and
\* write the final status
SingleAfterLoop(g, p) ==
  LET g1 == IF g.stopFetchRef
            THEN [g EXCEPT !.resumeInfo = TRUE]
            ELSE [g EXCEPT !.fetchState = clearFetchState(@, p.key),
                           !.cursorStore = clearCursor(@, p.key),
                           !.resumeInfo = FALSE]
  IN IF p.accountInfo # ""
     THEN [g |-> g1, p |-> [p EXCEPT !.pc = "finalsave"]]
     ELSE SingleFinally(g1)

\* a loop that gives up once a batch has added nothing
SingleLoopTopEndingOnNoNew(g, p) ==
  IF p.hasMore /\ ~g.stopFetchRef /\ p.page <= Len(p.allTimeline)
  THEN [g |-> [g EXCEPT !.calls = @ + 1], p |-> [p EXCEPT !.pc = "call"]]
  ELSE SingleAfterLoop(g, p)

\* a loop condition that does not look at the stop flag
SingleLoopTopIgnoringStop(g, p) ==
  IF p.hasMore
  THEN [g |-> [g EXCEPT !.calls = @ + 1], p |-> [p EXCEPT !.pc = "call"]]
  ELSE SingleAfterLoop(g, p)

\* a loop head that never looks at the clock
SingleLoopTopWithoutTimeout(g, p) ==
  IF p.hasMore /\ ~g.stopFetchRef
  THEN [g |-> [g EXCEPT !.calls = @ + 1], p |-> [p EXCEPT !.pc = "call"]]
  ELSE SingleAfterLoop(g, p)

\* `while (hasMore && !stopFetchRef.current)` with its timeout check
SingleLoopTop(g, p) ==
  IF p.hasMore /\ ~g.stopFetchRef
  THEN IF g.fetchStartTimeRef # NoTime /\ g.fetchStartTimeRef >= FetchTimeout
       THEN LET g1 == [g EXCEPT !.stopFetchRef = TRUE]
            IN IF p.accountInfo # "" /\ Len(p.allTimeline) > 0
               THEN [g |-> [g1 EXCEPT !.fetchState =
                              saveFetchState(@, p.key, p.cursor,
                                             p.allTimeline, p.accountInfo,
                                             FALSE)],
                     p |-> [p EXCEPT !.pc = "timeoutsave"]]
               ELSE SingleAfterLoop(g1, p)
       ELSE [g |-> [g EXCEPT !.calls = @ + 1], p |-> [p EXCEPT !.pc = "call"]]
  ELSE SingleAfterLoop(g, p)

\* the request: rejected while a fetch is in progress, else the reset of the
\* fetch state up to `await CleanupExtractorProcesses()`
handleFetch(key, mode) ==
  /\ Request
  /\ lastOp' = "handleFetch"
  /\ UNCHANGED stopAllSeen
  /\ IF FetchInProgress
     THEN UNCHANGED <<singleVars, storeVars, calls>>
     ELSE /\ loading' = TRUE
          /\ stopFetchRef' = FALSE
          /\ fetchStartTimeRef' = 0
          /\ single' = [IdleProc EXCEPT !.pc = "cleanup", !.key = key,
                                        !.source = mode]
          /\ UNCHANGED <<resumeInfo, storeVars, calls>>
  /\ UNCHANGED batchVars

\* a resume check that forgets the completion flag
ResumableIgnoringCompleted(existingState) ==
  existingState.present /\ existingState.cursor # NoCursor

\* existingState && existingState.cursor && !existingState.completed
Resumable(existingState) ==
  /\ existingState.present
  /\ existingState.cursor # NoCursor
  /\ ~existingState.completed

\* a resume that takes the cursor of the checkpoint and forgets its items
ResumeLoadCursorOnly(p, existingState) ==
  [p EXCEPT !.cursor = existingState.cursor, !.hasMore = TRUE]

\* a resume that takes the items of the checkpoint and starts from the top
ResumeLoadFromStart(p, existingState) ==
  [p EXCEPT !.allTimeline = existingState.timeline,
            !.accountInfo = existingState.accountInfo,
            !.hasMore = TRUE]

\* cursor, allTimeline and accountInfo are taken from the checkpoint
ResumeLoad(p, existingState) ==
  [p EXCEPT !.cursor = existingState.cursor,
            !.allTimeline = existingState.timeline,
            !.accountInfo = existingState.accountInfo,
            !.hasMore = TRUE]

\* the cleanup resolved or rejected: resume check, then the first call
SingleCleanupReturn ==
  /\ single.pc = "cleanup"
  /\ LET p == single
         existingState == fetchState[p.key]
         resumable == Resumable(existingState)
         fresh == [S EXCEPT !.fetchState = clearFetchState(@, p.key)]
         n == IF p.source = "resume"
              THEN IF resumable
                   THEN SingleLoopTop(S, ResumeLoad(p, existingState))
                   ELSE [g |-> [S EXCEPT !.loading = FALSE,
                                         !.fetchStartTimeRef = NoTime],
                         p |-> IdleProc]
              ELSE IF p.source = "range"
              THEN IF fresh.fetchStartTimeRef >= FetchTimeout
                   THEN SingleFinally([fresh EXCEPT !.stopFetchRef = TRUE])
                   ELSE [g |-> [fresh EXCEPT !.calls = @ + 1],
                         p |-> [p EXCEPT !.pc = "rangecall"]]
              ELSE SingleLoopTop(fresh, [p EXCEPT !.hasMore = TRUE])
     IN CommitSingle(n)
  /\ UNCHANGED requests

\* ExtractTimeline resolved: merge, save cursor, checkpoint, then persist
SingleBatch(g, p, data) ==
  LET q == MergeBatch(p, data)
  IN [g |-> [g EXCEPT
               !.cursorStore = IF q.cursor # NoCursor
                               THEN saveCursor(@, p.key, q.cursor) ELSE @,
               !.fetchState =
                  saveFetchState(@, p.key, q.cursor, q.allTimeline,
                                 q.accountInfo, ~q.hasMore)],
      p |-> [q EXCEPT !.pc = "persist"]]

SingleCallReturn(data) ==
  /\ single.pc = "call"
  /\ CommitSingle(SingleBatch(S, single, data))
  /\ UNCHANGED requests

\* ExtractDateRange resolved: finalData is the response, saved twice
SingleRangeReturn(data) ==
  /\ single.pc = "rangecall"
  /\ CommitSingle([g |-> S,
                   p |-> [single EXCEPT !.pc = "rangesave1",
                                        !.cursor = data.cursor,
                                        !.allTimeline = data.timeline,
                                        !.accountInfo = data.account_info]])
  /\ UNCHANGED requests

\* a SaveAccountToDBWithStatus of handleFetch resolved or rejected
SinglePersistReturn(ok) ==
  /\ single.pc \in {"persist", "timeoutsave", "finalsave", "catchsave",
                    "rangesave1", "rangesave2"}
  /\ LET p == single
         g == Persisted(S, p, ok)
         n == IF p.pc = "persist" THEN SingleLoopTop(g, p)
              ELSE IF p.pc = "timeoutsave" THEN SingleAfterLoop(g, p)
              ELSE IF p.pc = "rangesave1"
              THEN [g |-> g, p |-> [p EXCEPT !.pc = "rangesave2"]]
              ELSE SingleFinally(g)
     IN CommitSingle(n)
  /\ UNCHANGED requests

\* the catch block: salvage the checkpoint if it holds items
SingleCallFail(err) ==
  /\ single.pc \in {"call", "rangecall"}
  /\ LET p == single
         savedState == fetchState[p.key]
         n == IF savedState.present /\ Len(savedState.timeline) > 0
              THEN [g |-> [S EXCEPT !.resumeInfo = TRUE],
                    p |-> [p EXCEPT !.pc = "catchsave",
                                    !.cursor = savedState.cursor]]
              ELSE SingleFinally(S)
     IN CommitSingle(n)
  /\ UNCHANGED requests

handleStopFetch ==
  /\ Request
  /\ stopFetchRef' = TRUE
  /\ lastOp' = ""
  /\ UNCHANGED stopAllSeen
  /\ UNCHANGED <<loading, fetchStartTimeRef, resumeInfo, single, batchVars,
                 storeVars, calls>>

\* the interval of the timer effect, on a tick where remaining <= 0
SingleTimerFire ==
  /\ loading
  /\ fetchStartTimeRef # NoTime
  /\ fetchStartTimeRef >= FetchTimeout
  /\ ~stopFetchRef
  /\ stopFetchRef' = TRUE
  /\ lastOp' = ""
  /\ UNCHANGED stopAllSeen
  /\ UNCHANGED <<loading, fetchStartTimeRef, resumeInfo, single, batchVars,
                 storeVars, calls, requests>>

SingleNext ==
  \/ \E key \in Keys, mode \in Modes : handleFetch(key, mode)
  \/ SingleCleanupReturn
  \/ \E data \in Responses(single.cursor) : SingleCallReturn(data)
  \/ \E data \in Responses(NoCursor) : SingleRangeReturn(data)
  \/ \E ok \in {dbUp} : SinglePersistReturn(ok)
  \/ \E err \in ErrTexts : SingleCallFail(err)
  \/ handleStopFetch
  \/ SingleTimerFire
  \/ Tick

SpecSingle == Init /\ [][SingleNext]_vars

\* =================================================================== claims
status(t) == multipleAccounts[t].status

\* the Fetch All loops that are working on task t
LoopsOn(t) == {r \in RunIds : run[r].pc # "idle" /\ run[r].task = t}

\* run r is the only fetch loop of the scheduler that is running
SoleLoop(r) ==
  /\ run[r].pc # "idle"
  /\ \A x \in RunIds \ {r} : run[x].pc = "idle"
  /\ \A t \in Tasks : retry[t].pc = "idle"

\* ----------------------------------------------------------------------- C1
\* C1: when a task of a Fetch All run leaves `fetching` for `failed` or
\* `incomplete` without an error (timeout, stop-one, stop-all, loop exit with
\* more data), the status is `failed` if the loop of the current run has
\* merged no item for it and `incomplete` if it has merged at least one.
\* Stated for a run that is the only loop running.
C1_ClassificationRule ==
  [][\A t \in Tasks, r \in RunIds :
       ( /\ SoleLoop(r)
         /\ run[r].task = t
         /\ status(t) = "fetching"
         /\ multipleAccounts'[t].status \in {"failed", "incomplete"}
         /\ multipleAccounts'[t].error = NoError )
       => multipleAccounts'[t].status = Classify(Len(run[r].allTimeline))]_vars

\* ----------------------------------------------------------------------- C2
\* the fetch loop of task t exits in this step with hasMore = false while
\* neither the stop flag of t nor the stop-all flag is set
NaturalExit(t) ==
  \/ \E r \in RunIds :
       /\ run[r].pc = "persist" /\ run[r].task = t
       /\ run'[r] # run[r]
       /\ ~run[r].hasMore /\ ~accountStopFlagsRef[t] /\ ~stopAllRef
  \/ /\ retry[t].pc = "persist"
     /\ retry'[t].pc = "idle"
     /\ ~retry[t].hasMore /\ ~accountStopFlagsRef[t] /\ ~stopAllRef

\* C2: a step makes a task `completed` only if it is the exit of the task's
\* fetch loop with hasMore = false and with neither the per-account stop flag
\* nor the stop-all flag set.
C2_CompletedOnlyByNaturalExit ==
  [][\A t \in Tasks :
       (status(t) # "completed" /\ multipleAccounts'[t].status = "completed")
       => NaturalExit(t)]_vars

\* a task was completed by a loop that merged items
C2_Witness ==
  \E t \in Tasks :
    /\ status(t) = "completed"
    /\ multipleAccounts[t].mediaCount > 0
    /\ ~accountStopFlagsRef[t]

\* ----------------------------------------------------------------------- C3
\* the Adapter calls that have been issued and have not yet settled
InFlight ==
  Cardinality({r \in RunIds : run[r].pc = "call"})
  + Cardinality({t \in Tasks : retry[t].pc = "call"})
  + (IF single.pc \in {"call", "rangecall"} THEN 1 ELSE 0)

\* C3: at most one Adapter call is in flight at any time, system-wide.
C3_OneCallInFlight == InFlight <= 1

\* ----------------------------------------------------------------------- C4
\* the account keys that a running fetch loop works on, one entry per loop
ActiveLoops ==
  {<<"run", r, run[r].key>> : r \in {x \in RunIds : run[x].pc # "idle"}}
  \cup {<<"retry", t, retry[t].key>> :
          t \in {x \in Tasks : retry[x].pc # "idle"}}
  \cup (IF single.pc # "idle" THEN {<<"single", "", single.key>>} ELSE {})

\* C4: no two fetch loops are active for the same account key.
C4_OneLoopPerKey ==
  \A a, b \in ActiveLoops : a[3] = b[3] => a = b

\* ----------------------------------------------------------------------- C6
\* a Fetch All request is accepted in this step (it resets every task)
FetchAllStep == \E r \in RunIds : run[r].pc = "idle" /\ run'[r].pc # "idle"

\* the retry of task t sets `fetching` in this step: at its request or, when
\* it asks the persist collaborator for a cursor first, at the answer
RetryStep(t) ==
  \/ lastOp' = "handleRetryAccount" /\ requests' # requests
  \/ retry[t].pc = "db" /\ retry'[t] # retry[t]

\* C6: a task's status changes only along pending -> fetching -> {completed,
\* incomplete, failed}: never from pending to a terminal status, never from a
\* terminal status to a different terminal status, and from a terminal status
\* to `fetching` only by a retry of that task.  The reset of the whole list by
\* a new Fetch All request is not counted against the claim, and a retry that
\* ends in the step of its request has passed through `fetching`.
C6_StatusMachine ==
  [][\A t \in Tasks :
       LET old == status(t)
           new == multipleAccounts'[t].status
       IN \/ new = old
          \/ FetchAllStep
          \/ old = "pending" /\ new = "fetching"
          \/ old = "fetching" /\ new \in Terminal
          \/ old \in Terminal /\ RetryStep(t)]_vars

\* ----------------------------------------------------------------------- C7
\* run r starts the loop of another account in this step
StartsTask(r) == run'[r].pc # "idle" /\ run'[r].task # run[r].task

\* run r issues an Adapter call in this step
IssuesCall(r) == run'[r].pc = "call" /\ run'[r] # run[r]

\* run r ends the loop of the account it is working on in this step
EndsTask(r) ==
  run[r].pc # "idle" /\ (run'[r].pc = "idle" \/ run'[r].task # run[r].task)

\* C7: a Fetch All run in which stop-all was requested starts no further
\* account and issues no further Adapter call, and the account that was in
\* flight ends `failed` or `incomplete`.
C7_StopAllEndsRun ==
  [][\A r \in stopAllSeen :
       /\ ~StartsTask(r)
       /\ ~IssuesCall(r)
       /\ EndsTask(r) =>
            multipleAccounts'[run[r].task].status \in {"failed", "incomplete"}
    ]_vars

\* ----------------------------------------------------------------------- C8
\* the stop flag of task a is raised in this step: its timeout or its stop-one
StopsOne(a) == ~accountStopFlagsRef[a] /\ accountStopFlagsRef'[a]

\* everything the scheduler keeps about task b
TaskState(b) ==
  <<multipleAccounts[b], accountStopFlagsRef[b], accountMediaCountRef[b],
    accountStartTimesRef[b], accountTimersRef[b],
    {iv \in intervals : iv[2] = b}>>

\* C8: the timeout or the stop-one of a task changes nothing of any other
\* task (status, item count, timer, stop flag) and nothing of the loops, and
\* when the loop of a stopped task ends the running Fetch All starts the next
\* account unless stop-all was requested.
C8_StopOneIsLocal ==
  [][/\ \A a \in Tasks :
          StopsOne(a) =>
            /\ \A b \in Tasks \ {a} : TaskState(b)' = TaskState(b)
            /\ UNCHANGED <<stopAllRef, isFetchingAll, run, retry, storeVars>>
     /\ \A r \in RunIds :
          ( /\ EndsTask(r)
            /\ accountStopFlagsRef[run[r].task]
            /\ ~stopAllRef
            /\ run[r].idx < Cardinality(Imported) )
          => LET next == TaskOrder[run[r].idx + 1]
             IN /\ run'[r].task = next
                /\ run'[r].pc = "call"
                /\ multipleAccounts'[next].status = "fetching"]_vars

\* the first account was stopped and the run is fetching the second one
C8_Witness ==
  \E r \in RunIds :
    /\ run[r].pc = "call" /\ run[r].task = "t2"
    /\ accountStopFlagsRef["t1"]
    /\ status("t1") \in {"failed", "incomplete"}
    /\ status("t2") = "fetching"
    /\ ~accountStopFlagsRef["t2"]

\* ----------------------------------------------------------------------- C9
\* an error text of the authentication class
AuthClassText(e) ==
  \/ "401" \in e
  \/ "unauthorized" \in e
  \/ "invalid or expired" \in e

\* the Adapter call of a loop on task t is rejected in this step
CallFails(t) ==
  \/ retry[t].pc = "call" /\ retry'[t].pc = "idle"
  \/ \E r \in RunIds :
       /\ run[r].pc = "call" /\ run[r].task = t
       /\ run'[r] # run[r]
       /\ run'[r].pc # "persist"

\* C9: when the Adapter call of a batch-mode task fails, the error text is
\* recorded on the task, and if the text is of the authentication class the
\* task's status is `failed` whatever number of items was merged.
C9_AuthErrorForcesFailed ==
  [][\A t \in Tasks :
       CallFails(t) =>
         /\ multipleAccounts'[t].error # NoError
         /\ AuthClassText(multipleAccounts'[t].error)
              => multipleAccounts'[t].status = "failed"]_vars

\* a task with merged items is `failed` with an authentication-class error
C9_Witness ==
  \E t \in Tasks :
    /\ status(t) = "failed"
    /\ AuthClassText(multipleAccounts[t].error)
    /\ multipleAccounts[t].mediaCount > 0

\* ---------------------------------------------------------------------- C10
\* a checkpointed session is stored for key k and is not completed
HasSession(k) == fetchState[k].present /\ ~fetchState[k].completed

\* the last known lightweight cursor of task t: the one the task carries,
\* else the one in the cursor slot of its account
LightCursor(t) ==
  IF multipleAccounts[t].cursor # NoCursor THEN multipleAccounts[t].cursor
  ELSE cursorStore[multipleAccounts[t].username]

\* C10: a retry starts from the checkpointed session (items and cursor) if
\* one is stored and not completed, else from the last known lightweight
\* cursor, else from the cursor of the account's record in the persist
\* collaborator, else from the beginning without a cursor.
C10_RetryPriority ==
  [][\A t \in Tasks :
       LET k == multipleAccounts[t].username
           p == retry'[t]
       IN /\ (retry[t].pc = "idle" /\ p.pc # "idle") =>
               IF HasSession(k)
               THEN /\ p.pc = "call"
                    /\ p.cursor = fetchState[k].cursor
                    /\ p.allTimeline = fetchState[k].timeline
               ELSE IF LightCursor(t) # NoCursor
               THEN /\ p.pc = "call"
                    /\ p.cursor = LightCursor(t)
                    /\ p.allTimeline = <<>>
               ELSE p.pc = "db"
          /\ (retry[t].pc = "db" /\ p.pc = "call") =>
               /\ p.allTimeline = <<>>
               /\ p.cursor = IF db[k].present THEN db[k].cursor ELSE NoCursor
               /\ p.cursor = NoCursor => ~fetchState'[k].present]_vars

\* a retry is fetching from the cursor of the persist collaborator's record
C10_Witness ==
  \E t \in Tasks :
    /\ retry[t].pc = "call"
    /\ retry[t].page = 0
    /\ retry[t].source = "db"
    /\ retry[t].cursor # NoCursor

\* ----------------------------------------------------------------------- C5
\* C5: a fetch request made while a single-account fetch is running issues no
\* Adapter call and no cleanup call and leaves the running session, its stop
\* flag, its start time, the checkpoint and the merged items unchanged.
C5_ConcurrentFetchRejected ==
  [][( /\ single.pc # "idle"
       /\ lastOp' = "handleFetch"
       /\ requests' # requests )
     => UNCHANGED <<single, loading, stopFetchRef, fetchStartTimeRef,
                    fetchState, cursorStore, db, calls>>]_vars

\* a request was rejected while the second call of a session was in flight
C5_Witness ==
  /\ lastOp = "handleFetch"
  /\ single.pc = "call"
  /\ Len(single.allTimeline) > 0
  /\ loading

\* ---------------------------------------------------------------------- C11
\* nothing to resume from is known for task t: no stored session, no cursor
\* on the task, no cursor in the cursor slot
NothingStored(t) ==
  LET k == multipleAccounts[t].username
  IN /\ ~fetchState[k].present
     /\ multipleAccounts[t].cursor = NoCursor
     /\ cursorStore[k] = NoCursor

\* the persist collaborator has no cursor for key k
NoDbCursor(k) == ~db[k].present \/ db[k].cursor = NoCursor

RetryRequested == lastOp' = "handleRetryAccount" /\ requests' # requests

\* no Fetch All run is active
NoFetchAllRunning == \A r \in RunIds : run[r].pc = "idle"

\* C12: a retry requested while no Fetch All is running drives its account
\* even after an earlier stop-all: it goes on to its first Adapter call,
\* directly or after asking the persist collaborator for a cursor.
C12_RetryAfterStopAll ==
  [][NoFetchAllRunning =>
       /\ RetryRequested =>
            \E t \in Tasks : /\ retry[t].pc = "idle"
                             /\ retry'[t].pc \in {"call", "db"}
       /\ \A t \in Tasks :
            (retry[t].pc = "db" /\ retry'[t] # retry[t])
            => retry'[t].pc = "call"]_vars

\* ---------------------------------------------------------------------- C13
\* the retry loop of task t is running before or after this step
Retrying(t) == retry[t].pc # "idle" \/ retry'[t].pc # "idle"

\* C13: while a retry of a task is running (and no Fetch All is), the item
\* count of the task never goes down, and the item list of the account's
\* checkpointed session, when that session is not a completed one, never gets
\* shorter except when the session is removed at completion.
C13_RetryKeepsProgress ==
  [][\A t \in Tasks :
       (NoFetchAllRunning /\ NoFetchAllRunning' /\ Retrying(t)) =>
         LET k == multipleAccounts[t].username
         IN /\ multipleAccounts'[t].mediaCount >= multipleAccounts[t].mediaCount
            /\ \/ Len(fetchState'[k].timeline) >= Len(fetchState[k].timeline)
               \/ fetchState[k].completed
               \/ multipleAccounts'[t].status = "completed"]_vars

\* ---------------------------------------------------------------------- C14
\* no fetch loop is running for account key k: the controller has returned
AtRest(k) == \A a \in ActiveLoops : a[3] # k

\* C14: once the fetch of an account key has returned, the Checkpoint Store
\* holds no session with completed = true for that key (the session is
\* removed when the fetch completes naturally).
C14_NoCompletedSessionAtRest ==
  \A k \in Keys :
    AtRest(k) => ~(fetchState[k].present /\ fetchState[k].completed)

\* ---------------------------------------------------------------------- C15
\* the single-account session leaves its while loop in this step, after a
\* batch was saved or after the save made by the timeout check
SingleLoopExit ==
  /\ single.pc \in {"persist", "timeoutsave"}
  /\ single'.pc \in {"finalsave", "idle"}

\* C15: when a single-account session leaves its loop with the stop flag set
\* (user stop or timeout, also when set while the last call was in flight)
\* the checkpoint left for its key is resumable: present, not completed, with
\* a cursor; when it leaves the loop without the stop flag the checkpoint is
\* cleared.
C15_StoppedSessionResumable ==
  [][SingleLoopExit =>
       LET left == fetchState'[single.key]
       IN IF stopFetchRef
          THEN left.present /\ ~left.completed /\ left.cursor # NoCursor
          ELSE ~left.present]_vars

\* ---------------------------------------------------------------------- C16
\* the resume check of handleFetch runs in this step
ResumeChecked == single.pc = "cleanup" /\ single.source = "resume" /\ single' # single

\* C16: a resume request for a key whose checkpoint is absent, has no cursor
\* or is completed issues no Adapter call, leaves the Checkpoint Store, the
\* cursor slot and the persist collaborator unchanged, and returns the
\* controller to idle with loading off.
C16_NothingToResume ==
  [][LET st == fetchState[single.key]
     IN (ResumeChecked /\ (~st.present \/ st.cursor = NoCursor \/ st.completed))
        => /\ single' = IdleProc
           /\ ~loading'
           /\ calls' = calls
           /\ UNCHANGED storeVars]_vars

\* a resume was requested for a key whose stored session is completed
C16_Witness ==
  /\ single.pc = "cleanup"
  /\ single.source = "resume"
  /\ loading
  /\ fetchState[single.key].present
  /\ fetchState[single.key].completed
  /\ fetchState[single.key].cursor # NoCursor

\* ---------------------------------------------------------------------- C17
\* run r issues the first Adapter call of an account in this step
FirstCall(r) == run'[r].pc = "call" /\ run'[r].page = 0 /\ run'[r] # run[r]

\* C17: when Fetch All issues the first Adapter call of an account, no stale
\* checkpoint is stored for the account's key (neither a session nor a
\* lightweight cursor), and the loop starts with an empty item list and no
\* cursor.
C17_FreshFetchClearsCheckpoint ==
  [][\A r \in RunIds :
       FirstCall(r) =>
         LET k == run'[r].key
         IN /\ ~fetchState'[k].present
            /\ cursorStore'[k] = NoCursor
            /\ run'[r].cursor = NoCursor
            /\ run'[r].allTimeline = <<>>]_vars

\* ---------------------------------------------------------------------- C18
\* C18: a retry of a task that did not complete, made while the session
\* stored for its account has completed = true, does not continue from that
\* session: when it goes to its first Adapter call it has no items and no
\* cursor.
C18_CompletedSessionNotResumed ==
  [][\A t \in Tasks :
       LET st == fetchState[multipleAccounts[t].username]
       IN ( /\ retry[t].pc = "idle" /\ retry'[t].pc = "call"
            /\ status(t) \in {"failed", "incomplete"}
            /\ st.present /\ st.completed )
          => /\ retry'[t].allTimeline = <<>>
             /\ retry'[t].cursor = NoCursor]_vars

\* ---------------------------------------------------------------------- C19
\* the configured timeout has elapsed while an Adapter call of the
\* single-account session is still outstanding (the one-second tick may or
\* may not have raised the stop flag yet)
TimedOutInCall ==
  /\ single.pc = "call"
  /\ fetchStartTimeRef # NoTime
  /\ fetchStartTimeRef >= FetchTimeout

\* C19: when the timeout elapses while call k is outstanding, the session
\* stops with what was merged through call k-1: no step taken from then on
\* adds an item of call k to the session or to its checkpoint, and the
\* checkpoint is not marked completed.
C19_TimeoutKeepsEarlierItems ==
  [][TimedOutInCall =>
       /\ single'.allTimeline = <<>> \/ single'.allTimeline = single.allTimeline
       /\ fetchState'[single.key].timeline = fetchState[single.key].timeline
       /\ fetchState'[single.key].completed = fetchState[single.key].completed
    ]_vars


\* ---------------------------------------------------------------------- C20
\* the single-account session leaves its loop stopped by the timeout alone:
\* the timeout has elapsed, the stop flag is set (by the check before a call
\* in this step, or earlier by the one-second tick) and the fetch is the only
\* request made, so no user stop raised the flag
TimedOutExit ==
  /\ SingleLoopExit
  /\ stopFetchRef'
  /\ fetchStartTimeRef # NoTime
  /\ fetchStartTimeRef >= FetchTimeout
  /\ requests = 1

\* C20: whichever way the timeout was detected (the check before a call or
\* the tick during a call), a session that merged items leaves its loop with
\* no further Adapter call and with a checkpoint that is present, not
\* completed, and holds every item merged so far.
C20_TimeoutPathsConverge ==
  [][(TimedOutExit /\ Len(single.allTimeline) > 0) =>
       LET left == fetchState'[single.key]
       IN /\ calls' = calls
          /\ left.present
          /\ ~left.completed
          /\ left.timeline = single.allTimeline]_vars


\* ---------------------------------------------------------------------- C21
\* a stop (user stop or timer) was requested while the Adapter call of the
\* single-account session is in flight: the loop never issues a call with the
\* flag set, so the flag was raised after the call was issued
StoppedInCall == single.pc = "call" /\ stopFetchRef

\* C21: a call that is in flight when the stop is requested runs to its own
\* result: the next step of the session merges its response, and the
\* checkpoint written for it is present and not completed.
C21_StopLeavesCallAlone ==
  [][(StoppedInCall /\ single' # single) =>
       /\ single'.pc = "persist"
       /\ fetchState'[single.key].present
       /\ ~fetchState'[single.key].completed]_vars


\* ---------------------------------------------------------------------- C22
\* batch k >= 1 of the single-account session has been merged and
\* checkpointed, more data remains, the stop flag is set, and the loop
\* condition is evaluated in this step (the save of the batch settles)
StoppedBetweenBatches ==
  /\ single.pc = "persist"
  /\ single.hasMore
  /\ single.page >= 1
  /\ stopFetchRef
  /\ single' # single

\* C22: a stop flag set after batch k and before call k+1 ends the loop with
\* no further Adapter call; the result holds exactly the items merged through
\* batch k and is built as not completed (completed = !stopFetchRef), and the
\* stored checkpoint holds those items with the cursor of batch k, not
\* completed.
C22_StopBetweenBatches ==
  [][StoppedBetweenBatches =>
       LET left == fetchState'[single.key]
       IN /\ calls' = calls
          /\ single'.pc \in {"finalsave", "idle"}
          /\ single'.allTimeline = single.allTimeline
          /\ stopFetchRef'
          /\ resumeInfo'
          /\ left.present
          /\ ~left.completed
          /\ left.timeline = single.allTimeline
          /\ left.cursor = single.cursor]_vars

\* the session was stopped after a batch with more data to come and is
\* writing its final record
C22_Witness ==
  /\ single.pc = "finalsave"
  /\ stopFetchRef
  /\ single.hasMore
  /\ Len(single.allTimeline) > 0
  /\ fetchState[single.key].present
  /\ fetchState[single.key].cursor = single.cursor


\* ---------------------------------------------------------------------- C23
\* every batch carries at most one entry, so a session that has taken more
\* batches than it holds items has seen a batch that added nothing
SawEmptyBatch(p) == p.page > Len(p.allTimeline)

NoDuplicates(s) ==
  \A i, j \in 1..Len(s) : Identity(s[i]) = Identity(s[j]) => i = j

\* the timeout check before a call does not stop the session in this step
InTime == fetchStartTimeRef = NoTime \/ fetchStartTimeRef < FetchTimeout

HoldsProgress(p) ==
  /\ p.pc \in {"call", "persist", "timeoutsave"}
  /\ p.page >= 1 \/ p.source = "resume"

\* the checkpoint of the session's key is its locals: the merged items, the
\* cursor, the account info, and completed exactly when no more is to come
Mirrors(cp, p) ==
  /\ cp.present
  /\ cp.timeline = p.allTimeline
  /\ cp.cursor = p.cursor
  /\ cp.accountInfo = p.accountInfo
  /\ cp.completed = ~p.hasMore

\* the resume check of handleFetch finds a resumable checkpoint in this step
ResumeTaken ==
  ResumeChecked /\ Resumable(fetchState[single.key])

\* C24: a resumed single-account session continues exactly where the
\* stopped one was.  Wherever the loop is stopped or fails, the checkpoint
\* holds the loop's merged items, cursor and account info as they were after
\* the last batch; the resume takes all three from the checkpoint without
\* changing it and goes on with hasMore set, so the batches that follow are
\* merged onto the same sequence from the same cursor as in an uninterrupted
\* session.
C24_ResumeEquivalence ==
  [][/\ HoldsProgress(single') => Mirrors(fetchState'[single'.key], single')
     /\ ResumeTaken =>
          LET cp == fetchState[single.key]
          IN /\ fetchState'[single.key] = cp
             /\ single'.allTimeline = cp.timeline
             /\ single'.cursor = cp.cursor
             /\ single'.accountInfo = cp.accountInfo
             /\ single'.pc = "call" => calls' = calls + 1
    ]_vars

\* a session that was resumed from a checkpoint took a further batch and
\* ended as completed
C24_Witness ==
  /\ single.source = "resume"
  /\ single.pc = "finalsave"
  /\ single.page >= 1
  /\ ~single.hasMore
  /\ ~stopFetchRef
  /\ Len(single.allTimeline) > 0


\* ============================================================ merge runs
\* Sessions of alice, fresh or resumed from a stored checkpoint, fed with
\* batches of every
\* shape: entries of one tweet with different URLs, a text entry, an entry
\* that repeats an identity with another type, an entry of another tweet
\* with a URL already seen, repetitions inside a batch, and the empty batch.
E3 == [tweet_id |-> 1, url |-> "", type |-> "text"]
E4 == [tweet_id |-> 1, url |-> "u1", type |-> "video"]
E5 == [tweet_id |-> 2, url |-> "u1", type |-> "photo"]
Entries == {E1, E2, E3, E4, E5}

MergeBatches == UNION {[1..n -> Entries] : n \in 0..MaxLen}

\* what a checkpoint can hold: a merged sequence has no identity twice
Timelines == {s \in MergeBatches : NoDuplicates(s)}

\* the account info a batch carries is that of its first entry's author, so
\* a later batch may carry another one than the first batch did
MergeInfos == {"info1", "info2"}

MergeResponses(sent) ==
  [timeline : MergeBatches, cursor : {NextCursor(sent), NoCursor},
   completed : BOOLEAN, account_info : MergeInfos]

\* a stopped session of alice is in the store, nothing is running
InitMerge ==
  /\ multipleAccounts = [t \in Tasks |-> NoTask]
  /\ isFetchingAll = FALSE
  /\ stopAllRef = FALSE
  /\ accountStopFlagsRef = [t \in Tasks |-> FALSE]
  /\ accountMediaCountRef = [t \in Tasks |-> 0]
  /\ accountStartTimesRef = [t \in Tasks |-> NoTime]
  /\ accountTimersRef = [t \in Tasks |-> NoOwner]
  /\ intervals = {}
  /\ \E existing \in Timelines :
       fetchState = saveFetchState([k \in Keys |-> NoState], "alice", "c1",
                                   existing, "info1", FALSE)
  /\ cursorStore = saveCursor([k \in Keys |-> NoCursor], "alice", "c1")
  /\ db = [k \in Keys |-> NoRecord]
  /\ dbUp \in BOOLEAN
  /\ fetchMode = "batch"
  /\ cliOutput = NoOutput
  /\ extractorError = <<>>
  /\ calls = 0
  /\ requests = 0
  /\ run = [r \in RunIds |-> IdleProc]
  /\ retry = [t \in Tasks |-> IdleProc]
  /\ loading = FALSE
  /\ stopFetchRef = FALSE
  /\ fetchStartTimeRef = NoTime
  /\ resumeInfo = TRUE
  /\ single = IdleProc
  /\ lastOp = ""
  /\ stopAllSeen = {}

MergeNext ==
  \/ \E mode \in {"fresh", "resume"} : handleFetch("alice", mode)
  \/ SingleCleanupReturn
  \/ \E data \in MergeResponses(single.cursor) : SingleCallReturn(data)
  \/ \E ok \in {dbUp} : SinglePersistReturn(ok)

SpecMerge == InitMerge /\ [][MergeNext]_vars


\* ---------------------------------------------------------------------- C25
\* C25: merging a batch a second time changes nothing: for the merged
\* sequence A a session holds and every batch B, merging B into merge(A, B)
\* gives merge(A, B) again, entry for entry.
C25_MergeIdempotent ==
  \A B \in MergeBatches :
    LET AB == mergeTimelines(single.allTimeline, B)
    IN mergeTimelines(AB, B) = AB

\* a session has merged two batches and holds every entry of some
\* two-entry batch, so that merging that batch once more is the claim's case
C25_Witness ==
  /\ single.pc = "persist"
  /\ single.page >= 2
  /\ \E B \in MergeBatches :
       /\ Len(B) = 2
       /\ B[1] # B[2]
       /\ Range(B) \subseteq Range(single.allTimeline)

\* ---------------------------------------------------------------------- C26
\* two entries are the same item: one tweet id and one URL, or one tweet id
\* and both text
SameItem(x, y) ==
  /\ x.tweet_id = y.tweet_id
  /\ \/ x.type = "text" /\ y.type = "text"
     \/ x.type # "text" /\ y.type # "text" /\ x.url = y.url

\* the positions of `incoming` that hold an item not in `existing` and not
\* at an earlier position of `incoming`
NewPositions(existing, incoming) ==
  {i \in 1..Len(incoming) :
     /\ \A x \in Range(existing) : ~SameItem(x, incoming[i])
     /\ \A j \in 1..(i - 1) : ~SameItem(incoming[j], incoming[i])}

\* merged = existing, then the entries of incoming at its new positions, in
\* the order of incoming
ExtendsInOrder(existing, incoming, merged) ==
  LET new == NewPositions(existing, incoming)
      n == Len(existing)
  IN /\ Len(merged) = n + Cardinality(new)
     /\ SubSeq(merged, 1, n) = existing
     /\ \A i \in new :
          merged[n + Cardinality({j \in new : j <= i})] = incoming[i]

\* C26: for the merged sequence a session holds and every batch, the merge
\* is that sequence unchanged, followed by exactly the entries of the batch
\* whose item (tweet id with URL, or tweet id with type text) is not yet
\* present, in the order of the batch; an entry with the tweet id of a merged
\* entry and another URL is kept.
C26_MergeKeepsOrder ==
  \A B \in MergeBatches :
    ExtendsInOrder(single.allTimeline, B,
                   mergeTimelines(single.allTimeline, B))

\* a session has merged a batch and holds two entries of one tweet with
\* different URLs, in the order they arrived
C26_Witness ==
  /\ single.pc = "persist"
  /\ single.page >= 1
  /\ \E i, j \in 1..Len(single.allTimeline) :
       /\ i < j
       /\ single.allTimeline[i] = E1
       /\ single.allTimeline[j] = E2
       /\ fetchState[single.key].timeline = single.allTimeline


\* ---------------------------------------------------------------------- C27
\* the single-account session is in its loop or writing its last record
InSession(p) ==
  p.pc \in {"call", "persist", "timeoutsave", "finalsave", "catchsave"}

\* C27: once the single-account session has account info (from its first
\* batch or from the checkpoint it resumed), no step of the session changes
\* it, whatever account info later batches carry, and the checkpoint stored
\* for the session's key carries the same account info.
C27_AccountInfoFirstSeen ==
  [][/\ (InSession(single) /\ InSession(single')
           /\ single.accountInfo # "")
        => single'.accountInfo = single.accountInfo
     /\ (InSession(single') /\ single'.accountInfo # ""
           /\ fetchState'[single'.key].present)
        => fetchState'[single'.key].accountInfo = single'.accountInfo
    ]_vars

\* a session has taken two batches, the first set its account info, and a
\* later one carried another account info
C27_Witness ==
  /\ single.pc = "persist"
  /\ single.source = "fresh"
  /\ single.page >= 2
  /\ single.accountInfo = "info2"
  /\ fetchState[single.key].accountInfo = "info2"


\* ---------------------------------------------------------------------- C28
\* everything a loop step writes except the persist collaborator's record
SameButDb(g) ==
  /\ multipleAccounts' = g.multipleAccounts
  /\ accountStopFlagsRef' = g.accountStopFlagsRef
  /\ accountMediaCountRef' = g.accountMediaCountRef
  /\ fetchState' = g.fetchState
  /\ cursorStore' = g.cursorStore
  /\ calls' = g.calls

\* C28: every batch of a Fetch All or retry loop is followed by a call of
\* the persist collaborator, and when that call fails the loop takes the
\* step it would have taken had the call succeeded: the same next call or the
\* same exit, with the same merged items, cursor, checkpoint and task
\* status; only the collaborator's record stays as it was.
C28_PersistBestEffort ==
  [][/\ \A r \in RunIds :
          /\ (run[r].pc = "call" /\ run'[r].page = run[r].page + 1)
                => run'[r].pc = "persist"
          /\ (run[r].pc = "persist" /\ run'[r] # run[r] /\ ~dbUp)
                => LET n == RunLoopTop(Persisted(G, run[r], TRUE), r, run[r],
                                       stopAllRef)
                   IN /\ run'[r] = n.p
                      /\ SameButDb(n.g)
                      /\ db' = db
     /\ \A t \in Tasks :
          /\ (retry[t].pc = "call" /\ retry'[t].page = retry[t].page + 1)
                => retry'[t].pc = "persist"
          /\ (retry[t].pc = "persist" /\ retry'[t] # retry[t] /\ ~dbUp)
                => LET n == RetryLoopTop(Persisted(G, retry[t], TRUE), t,
                                         retry[t], stopAllRef)
                   IN /\ retry'[t] = n.p
                      /\ SameButDb(n.g)
                      /\ db' = db
    ]_vars

\* a Fetch All loop went on to its second call after the persist of its
\* first batch had failed
C28_Witness ==
  \E r \in RunIds :
    /\ run[r].pc = "call"
    /\ run[r].page >= 1
    /\ ~dbUp
    /\ ~db[run[r].key].present
    /\ fetchState[run[r].key].timeline = run[r].allTimeline
    /\ Len(run[r].allTimeline) > 0


\* ---------------------------------------------------------------------- C29
\* the Adapter call of the single-account session fails in this step and
\* handleFetch runs its catch block
SingleAborted ==
  /\ single.pc \in {"call", "rangecall"}
  /\ single'.pc \in {"catchsave", "idle"}

\* C29: when a single-account fetch is aborted and a checkpoint with at
\* least one item is stored for its key, the checkpoint is kept, resume is
\* offered and the partial result is handed to the persist collaborator;
\* when no such checkpoint is stored, the fetch ends with the failure alone
\* and resume is not offered.
C29_SalvageOrBareFailure ==
  [][SingleAborted =>
       LET savedState == fetchState[single.key]
       IN IF savedState.present /\ Len(savedState.timeline) > 0
          THEN /\ single'.pc = "catchsave"
               /\ resumeInfo'
               /\ fetchState' = fetchState
          ELSE /\ single'.pc = "idle"
               /\ ~resumeInfo'
               /\ fetchState' = fetchState]_vars


\* ---------------------------------------------------------------------- C30
\* the retry loop of task t issues its next Adapter call in this step, after
\* a batch it has merged
NextCallIssued(t) ==
  /\ retry[t].pc = "persist"
  /\ retry'[t].pc = "call"

\* C30: when a retry loop issues call k+1 (no Fetch All loop running beside
\* it, and no completed session of an earlier run left in the store), the
\* checkpoint stored for its account holds the items and the cursor the loop
\* holds after batch k.
C30_CheckpointBeforeNextCall ==
  [][\A t \in Tasks :
       ( /\ NextCallIssued(t)
         /\ NoFetchAllRunning
         /\ ~fetchState[retry[t].key].completed )
       => LET stored == fetchState'[retry[t].key]
          IN /\ stored.present
             /\ stored.timeline = retry'[t].allTimeline
             /\ stored.cursor = retry'[t].cursor]_vars


\* ---------------------------------------------------------------------- C31
\* the Fetch All loop r decides in this step whether to go on after a batch
RunLoopCheck(r) ==
  /\ run[r].pc = "persist"
  /\ run'[r] # run[r]

\* C31: a Fetch All loop (the only loop running) that reaches its loop head
\* when the timeout of its account has elapsed issues no Adapter call,
\* whether or not the timer callback has fired.
C31_TimeoutCheckedBeforeCall ==
  [][\A r \in RunIds :
       (SoleLoop(r) /\ RunLoopCheck(r) /\ Due(run[r].task))
       => /\ calls' = calls
          /\ run'[r].pc # "call"]_vars


\* ---------------------------------------------------------------------- C32
\* the Adapter call of the Fetch All loop r fails in this step
RunCallFailed(r) ==
  /\ run[r].pc = "call"
  /\ run'[r] # run[r]
  /\ run'[r].pc # "persist"

\* no other imported task names the account of task t
OwnAccount(t) ==
  \A u \in Tasks \ {t} :
    multipleAccounts[u].username # multipleAccounts[t].username

\* C32: when an Adapter call of a Fetch All loop (the only loop running, on
\* an account that no other task names) fails, the loop issues no further
\* call for that task and merges nothing,
\* the Checkpoint Store and the cursor slot are left as they were, and when
\* the failed call was the first of the account's fetch no checkpoint is
\* stored for the account.
C32_FailureKeepsCheckpoint ==
  [][\A r \in RunIds :
       (SoleLoop(r) /\ RunCallFailed(r) /\ OwnAccount(run[r].task))
       => /\ run'[r].pc = "call" => run'[r].task # run[r].task
          /\ run'[r].allTimeline = <<>>
          /\ fetchState' = fetchState
          /\ cursorStore' = cursorStore
          /\ run[r].page = 0 => ~fetchState'[run[r].key].present]_vars

\* ---------------------------------------------------------------------- C33
\* the backend's answer to one extractor output: the flags are passed on and
\* has_more is computed from them
ExtractTimeline(cliResponse) ==
  LET hasMore == cliResponse.cursor # NoCursor /\ ~cliResponse.completed
  IN [timeline |-> cliResponse.timeline,
      account_info |-> cliResponse.account_info,
      metadata |-> [has_more |-> hasMore,
                    cursor |-> cliResponse.cursor,
                    completed |-> cliResponse.completed],
      cursor |-> cliResponse.cursor,
      completed |-> cliResponse.completed]

\* C33: after every successful batch of the single-account loop, whatever
\* the Adapter answered, hasMore is true exactly when the answer carries a
\* non-empty cursor and completed is false, the backend's has_more of that
\* answer is the same value, the checkpoint written for the batch has
\* completed = NOT hasMore, and the loop issues its next call only when
\* hasMore is true.
C33_HasMoreRule ==
  [][/\ (single.pc = "call" /\ single'.pc = "persist")
        => \A d \in Responses(single.cursor) :
             SingleCallReturn(d)
             => /\ single'.hasMore = (d.cursor # NoCursor /\ ~d.completed)
                /\ ExtractTimeline(d).metadata.has_more = single'.hasMore
                /\ fetchState'[single'.key].present
                /\ fetchState'[single'.key].completed = ~single'.hasMore
     /\ (single.pc = "persist" /\ single'.pc = "call")
        => single.hasMore]_vars

\* a batch came back with a cursor and the completion flag, and was saved
C33_Witness ==
  /\ single.pc = "persist"
  /\ single.cursor # NoCursor
  /\ ~single.hasMore
  /\ fetchState[single.key].completed

\* ---------------------------------------------------------------------- C34
\* isSingleMode ? 0 : BATCH_SIZE, the batch_size the calls of a fetch carry
batchSize == IF fetchMode = "single" THEN 0 ELSE 200

\* the extractor is given a limit only for a positive batch size
LimitArgs(size) == IF size > 0 THEN <<"--limit", size>> ELSE <<>>

\* the settings ask for everything in one call
InitSingleMode ==
  /\ multipleAccounts = [t \in Tasks |-> NoTask]
  /\ isFetchingAll = FALSE
  /\ stopAllRef = FALSE
  /\ accountStopFlagsRef = [t \in Tasks |-> FALSE]
  /\ accountMediaCountRef = [t \in Tasks |-> 0]
  /\ accountStartTimesRef = [t \in Tasks |-> NoTime]
  /\ accountTimersRef = [t \in Tasks |-> NoOwner]
  /\ intervals = {}
  /\ fetchState = [k \in Keys |-> NoState]
  /\ cursorStore = [k \in Keys |-> NoCursor]
  /\ db = [k \in Keys |-> NoRecord]
  /\ dbUp \in BOOLEAN
  /\ fetchMode = "single"
  /\ cliOutput = NoOutput
  /\ extractorError = <<>>
  /\ calls = 0
  /\ requests = 0
  /\ run = [r \in RunIds |-> IdleProc]
  /\ retry = [t \in Tasks |-> IdleProc]
  /\ loading = FALSE
  /\ stopFetchRef = FALSE
  /\ fetchStartTimeRef = NoTime
  /\ resumeInfo = FALSE
  /\ single = IdleProc
  /\ lastOp = ""
  /\ stopAllSeen = {}

SpecSingleMode == InitSingleMode /\ [][SingleNext]_vars

\* C34: with batch size 0 the loop of a single-account fetch does not go
\* round: once its call has been answered and the batch persisted, it issues
\* no second call, whatever cursor and completed flag the answer carried.
C34_SingleModeOneCall ==
  [][(LimitArgs(batchSize) = <<>> /\ single.pc = "persist")
     => /\ single'.pc # "call"
        /\ calls' = calls]_vars

\* ---------------------------------------------------------------------- C35
\* the cursor of the request a loop at its call hands to ExtractTimeline
RequestCursor(p) == p.cursor

\* the extractor is given a cursor only when the request carries one
CursorArgs(cursor) == IF cursor # NoCursor THEN <<"--cursor", cursor>> ELSE <<>>

\* C35: cursors are handed on verbatim by the single-account loop: the call
\* after a batch carries the cursor that batch's answer returned, the first
\* call of a resumed session carries the cursor of the checkpoint, and the
\* first call of a fresh session carries none; the extractor is given
\* exactly that cursor, or no cursor argument when there is none.
C35_CursorVerbatim ==
  [][/\ (single.pc = "call" /\ single'.pc = "persist")
        => \A d \in Responses(single.cursor) :
             SingleCallReturn(d) => single'.cursor = d.cursor
     /\ (single.pc = "persist" /\ single'.pc = "call")
        => /\ RequestCursor(single') = single.cursor
           /\ CursorArgs(RequestCursor(single')) = <<"--cursor", single.cursor>>
     /\ (single.pc = "cleanup" /\ single'.pc = "call"
           /\ single.source = "resume")
        => /\ RequestCursor(single') = fetchState[single.key].cursor
           /\ CursorArgs(RequestCursor(single'))
                = <<"--cursor", fetchState[single.key].cursor>>
     /\ (single.pc = "cleanup" /\ single'.pc = "call"
           /\ single.source = "fresh")
        => /\ RequestCursor(single') = NoCursor
           /\ CursorArgs(RequestCursor(single')) = <<>>]_vars

\* a resumed session at its second call, carrying a cursor
C35_Witness ==
  /\ single.pc = "call"
  /\ single.source = "resume"
  /\ single.page = 1
  /\ RequestCursor(single) # NoCursor

\* ---------------------------------------------------------------------- C36
\* every awaited call of handleFetch returns (resolves or rejects)
SingleAwaitReturns ==
  \/ SingleCleanupReturn
  \/ \E data \in Responses(single.cursor) : SingleCallReturn(data)
  \/ \E data \in Responses(NoCursor) : SingleRangeReturn(data)
  \/ \E ok \in {dbUp} : SinglePersistReturn(ok)
  \/ \E err \in ErrTexts : SingleCallFail(err)

\* time passes and every awaited call returns; nothing is assumed about the
\* timer callback or the user
SpecSingleLive ==
  /\ Init
  /\ [][SingleNext]_vars
  /\ WF_vars(Tick)
  /\ WF_vars(SingleAwaitReturns)

\* C36: a single-account session that has started always ends and leaves
\* the application idle and not loading, whatever the Adapter answers (a
\* cursor and hasMore at every call included), provided the awaited calls
\* return and time passes.
C36_SessionTerminates ==
  (single.pc # "idle") ~> (single.pc = "idle" /\ ~loading)

\* a timeline session whose every answer so far said hasMore has reached the
\* timeout and stopped itself at the loop head
C36_Witness ==
  /\ single.pc = "timeoutsave"
  /\ single.hasMore
  /\ single.page = 2
  /\ stopFetchRef

\* ---------------------------------------------------------------------- C37
\* a Fetch All loop or a retry is working on task t
LoopRunningFor(t) ==
  \/ \E r \in RunIds : run[r].pc # "idle" /\ run[r].task = t
  \/ retry[t].pc # "idle"

\* every awaited call of Fetch All run r returns (resolves or rejects)
RunAwaitReturns(r) ==
  \/ \E data \in Responses(run[r].cursor) : RunCallReturn(r, data)
  \/ \E ok \in {dbUp} : RunPersistReturn(r, ok)
  \/ \E ok \in {dbUp} : RunStopSaveReturn(r, ok)
  \/ \E err \in ErrTexts : RunCallFail(r, err)

\* every awaited call of the retry of task t returns
RetryAwaitReturns(t) ==
  \/ \E ok \in {dbUp} : RetryDbReturn(t, ok)
  \/ \E data \in Responses(retry[t].cursor) : RetryCallReturn(t, data)
  \/ \E ok \in {dbUp} : RetryPersistReturn(t, ok)
  \/ \E err \in ErrTexts : RetryCallFail(t, err)

\* the live intervals of task t keep firing
TimerFires(t) == \E iv \in intervals : iv[2] = t /\ TimerFire(iv[1], t)

\* one imported account, Fetch All requested only while it is offered
NextUIOne ==
  \/ \E names \in OneAccountImports : handleImportFile(names)
  \/ \E r \in RunIds : FetchAllOffered /\ handleFetchAll(r)
  \/ FetchAllOffered /\ handleFetchAllNoToken
  \/ BatchSteps

\* time passes, the intervals fire and every awaited call returns; nothing is
\* assumed about the user
SpecUILive ==
  /\ Init
  /\ [][NextUIOne]_vars
  /\ WF_vars(Tick)
  /\ \A r \in RunIds : WF_vars(RunAwaitReturns(r))
  /\ \A t \in Tasks : WF_vars(RetryAwaitReturns(t))
  /\ \A t \in Tasks : WF_vars(TimerFires(t))

\* a loop is going round for task t with nothing left to end it: no stop
\* flag is set and no interval is registered for the task
Orphan(t) ==
  /\ \/ \E r \in RunIds : run[r].pc \in {"call", "persist"} /\ run[r].task = t
     \/ retry[t].pc \in {"call", "persist"}
  /\ ~stopAllRef
  /\ ~accountStopFlagsRef[t]
  /\ \A iv \in intervals : iv[2] # t

C38_ResumeOfferedIsResumable ==
  [][(single.pc # "idle" /\ ~resumeInfo /\ resumeInfo')
     => Resumable(fetchState'[single.key])]_vars

\* ---------------------------------------------------------------------- C39
\* Extractor output is a sequence of lines and a line a sequence of words;
\* every word stands for 150 characters, so that a line of more than two
\* words is longer than the 300 characters parseExtractorError keeps.
Words ==
  {" ", "ERROR:", "Unable to retrieve Tweets from this timeline", "429",
   "Unauthorized", "404", "403", "ok"}

\* what a failed extractor may have written: one line, or two lines
Outputs ==
  LET Lines == UNION {[1..k -> Words] : k \in 0..(MaxLen + 1)}
  IN {<<l>> : l \in Lines}
       \cup {<<l, m>> : l \in Lines, m \in {<<"ERROR:", "404">>, <<"ok">>}}

\* strings.ToLower, word by word
ToLower(s) ==
  LET lower(w) ==
        CASE w = "ERROR:" -> "error:"
          [] w = "Unable to retrieve Tweets from this timeline"
               -> "unable to retrieve tweets from this timeline"
          [] w = "Unauthorized" -> "unauthorized"
          [] OTHER -> w
  IN [i \in 1..Len(s) |-> lower(s[i])]

\* strings.Contains
Contains(s, w) == \E i \in 1..Len(s) : s[i] = w

\* the output as one string: its lines joined by newlines
RECURSIVE Join(_)
Join(lines) ==
  IF Len(lines) = 0 THEN <<>>
  ELSE IF Len(lines) = 1 THEN lines[1]
  ELSE lines[1] \o <<"\n">> \o Join(Tail(lines))

\* strings.TrimSpace: blanks and newlines at both ends are dropped
RECURSIVE TrimSpace(_)
TrimSpace(s) ==
  IF Len(s) = 0 THEN s
  ELSE IF s[1] \in {" ", "\n"} THEN TrimSpace(Tail(s))
  ELSE IF s[Len(s)] \in {" ", "\n"} THEN TrimSpace(SubSeq(s, 1, Len(s) - 1))
  ELSE s

\* the first line that holds "error:" or "exception", trimmed: the loop of
\* parseExtractorError over the lines
RECURSIVE firstErrorLine(_)
firstErrorLine(lines) ==
  IF Len(lines) = 0 THEN <<>>
  ELSE LET lineLower == ToLower(lines[1])
       IN IF Contains(lineLower, "error:") \/ Contains(lineLower, "exception")
          THEN TrimSpace(lines[1])
          ELSE firstErrorLine(Tail(lines))

\* the error line parseExtractorError keeps: the first error line, or the
\* whole output when there is none, cut after 300 characters
errorLineOf(output) ==
  LET found == firstErrorLine(output)
      errorLine == IF found = <<>> THEN TrimSpace(Join(output)) ELSE found
      len(s) == 150 * Len(s)
  IN IF len(errorLine) > 300
     THEN SubSeq(errorLine, 1, 300 \div 150) \o <<"...">>
     ELSE errorLine

\* a hint chain that looks for a missing account before anything else
hintForNotFoundFirst(output, username) ==
  LET out == Join(output)
      outputLower == ToLower(out)
  IN IF Contains(out, "404")
     THEN <<" [Hint: @", username, " may not exist or is suspended]">>
     ELSE IF Contains(outputLower,
                      "unable to retrieve tweets from this timeline")
     THEN <<" [Hint: End of timeline reached or rate limited - data already fetched has been saved]">>
     ELSE IF Contains(outputLower, "rate limit") \/ Contains(out, "429")
     THEN <<" [Hint: Wait 5-15 minutes before retrying]">>
     ELSE IF Contains(out, "401") \/ Contains(outputLower, "unauthorized")
     THEN <<" [Hint: Auth token may be invalid or expired]">>
     ELSE IF Contains(outputLower, "protected") \/ Contains(out, "403")
     THEN <<" [Hint: Protected account - need to follow and use auth token]">>
     ELSE <<>>

\* the if / else-if chain that picks the hint
hintFor(output, username) ==
  LET out == Join(output)
      outputLower == ToLower(out)
  IN IF Contains(outputLower, "unable to retrieve tweets from this timeline")
     THEN <<" [Hint: End of timeline reached or rate limited - data already fetched has been saved]">>
     ELSE IF Contains(outputLower, "rate limit") \/ Contains(out, "429")
     THEN <<" [Hint: Wait 5-15 minutes before retrying]">>
     ELSE IF Contains(out, "401") \/ Contains(outputLower, "unauthorized")
     THEN <<" [Hint: Auth token may be invalid or expired]">>
     ELSE IF Contains(out, "404")
     THEN <<" [Hint: @", username, " may not exist or is suspended]">>
     ELSE IF Contains(outputLower, "protected") \/ Contains(out, "403")
     THEN <<" [Hint: Protected account - need to follow and use auth token]">>
     ELSE <<>>

parseExtractorError(output, username) ==
  errorLineOf(output) \o hintFor(output, username)

\* the extractor exited with an error: ExtractTimeline returns the parsed
\* error
ExtractorFailed(output, username) ==
  /\ cliOutput = NoOutput
  /\ cliOutput' = [output |-> output, username |-> username]
  /\ extractorError' = parseExtractorError(output, username)
  /\ UNCHANGED <<batchVars, singleVars, fetchState, cursorStore, db, dbUp,
                 fetchMode, calls, requests, lastOp, stopAllSeen>>

ParseNext == \E output \in Outputs : ExtractorFailed(output, "alice")

SpecParse == Init /\ [][ParseNext]_vars

\* the extracted error line of the output, before any cut: the first of the
\* lines that hold an error marker, or the whole output
ExtractedLine(output) ==
  LET ErrorLines ==
        {i \in 1..Len(output) :
           \E j \in 1..Len(output[i]) :
             output[i][j] \in {"ERROR:", "exception"}}
  IN IF ErrorLines = {}
     THEN TrimSpace(Join(output))
     ELSE TrimSpace(output[CHOOSE i \in ErrorLines :
                             \A k \in ErrorLines : i <= k])

\* the hint classes in their fixed order: end of timeline, rate limit,
\* unauthorized, not found, protected
HintClasses(output) ==
  LET has(w) == \E i \in 1..Len(output) : Contains(output[i], w)
  IN <<has("Unable to retrieve Tweets from this timeline"),
       has("429"), has("Unauthorized"), has("404"), has("403")>>

\* the hint of the first class that occurs, or none
ExpectedHint(output, username) ==
  LET matched == {c \in 1..5 : HintClasses(output)[c]}
      first == CHOOSE c \in matched : \A d \in matched : c <= d
  IN IF matched = {} THEN <<>>
     ELSE CASE first = 1 -> <<" [Hint: End of timeline reached or rate limited - data already fetched has been saved]">>
            [] first = 2 -> <<" [Hint: Wait 5-15 minutes before retrying]">>
            [] first = 3 -> <<" [Hint: Auth token may be invalid or expired]">>
            [] first = 4
                 -> <<" [Hint: @", username, " may not exist or is suspended]">>
            [] first = 5 -> <<" [Hint: Protected account - need to follow and use auth token]">>

====
